---- MODULE Spec2Model ----
(***************************************************************************)
(* State-machine model of src/app.py: a Streamlit page that searches the   *)
(* companies nearest to a map click, lets the user select some of them and *)
(* downloads their annual accounts from the INPI API into a ZIP archive.   *)
(*                                                                         *)
(* The script is single-threaded.  A step of the model is one interaction  *)
(* with the outside (one HTTP request with its response, one sleep, one    *)
(* button press) or one call/return of a function of app.py.  `stack` is   *)
(* the Python call stack, `ret` the value or exception the innermost       *)
(* finished call hands to its caller.                                      *)
(*                                                                         *)
(* Text is a sequence of one-character strings, so that strip, re.sub and  *)
(* replace are computed and not assumed.  None and "" are both <<>> where  *)
(* the code itself reads the value through `x or ""`.                      *)
(***************************************************************************)
EXTENDS Integers, Sequences, FiniteSets, TLC

VARIABLES
    INPI_USERNAME,    \* st.secrets, read once at line 24
    INPI_PASSWORD,    \* st.secrets, read once at line 25
    inpi_token,       \* st.session_state["inpi_token"]
    results_df,       \* st.session_state["results_df"]
    selected_sirens,  \* st.session_state["selected_sirens"]
    click_latlon,     \* st.session_state["click_latlon"]
    last_cp,          \* st.session_state["last_cp"]
    stack,            \* call stack, innermost frame last
    ret,              \* what the innermost finished call returned or raised
    fetch,            \* the tenacity-wrapped call in progress (or just finished)
    tok,              \* frame of get_inpi_token
    op,               \* frame of inpi_get_attachments / inpi_download_bilan_pdf
    zip,              \* frame of build_zip_inpi
    zf,               \* the zipfile.ZipFile being written: its entries in order
    srch,             \* frame of the search button handler
    hist,             \* observer: what the session has sent to the INPI upstream
    upstream          \* the answers the upstreams may give in this behaviour

vars == <<INPI_USERNAME, INPI_PASSWORD, inpi_token, results_df, selected_sirens,
          click_latlon, last_cp, stack, ret, fetch, tok, op, zip, zf, srch, hist,
          upstream>>

session == <<inpi_token, results_df, selected_sirens, click_latlon, last_cp>>
\* what no step changes
secrets == <<INPI_USERNAME, INPI_PASSWORD, upstream>>

----------------------------------------------------------------------------
(* Bounds of the model                                                     *)

\* longest attachment listing the upstream answers with
MaxBilans == 2
\* the observer's login counters saturate here
MaxCount == 3

\* [:80] of line 212 and max_selections=5 of line 369
NameCap == 80
MaxSelections == 5

----------------------------------------------------------------------------
(* Text helpers                                                            *)

None == <<>>

Min(a, b) == IF a < b THEN a ELSE b
Max(a, b) == IF a > b THEN a ELSE b

Take(s, n) == SubSeq(s, 1, Min(n, Len(s)))

IsSpace(c) == c \in {" ", "\t", "\n"}

RECURSIVE lstrip(_)
lstrip(s) == IF s # <<>> /\ IsSpace(Head(s)) THEN lstrip(Tail(s)) ELSE s

RECURSIVE rstrip(_)
rstrip(s) ==
    IF s # <<>> /\ IsSpace(s[Len(s)]) THEN rstrip(SubSeq(s, 1, Len(s) - 1)) ELSE s

\* str.strip()
strip(s) == rstrip(lstrip(s))

\* str.replace(a, b) for one-character a and b
replace(s, a, b) == [i \in 1..Len(s) |-> IF s[i] = a THEN b ELSE s[i]]

----------------------------------------------------------------------------
(* HTTP helpers: get_json, post_json, download_bytes under tenacity.retry  *)

\* stop_after_attempt(4)
MaxAttempts == 4

\* the statuses the three fetchers report as "Transient ..."
TransientStatuses == {429, 500, 502, 503, 504}

\* wait_exponential(min=1, max=10): seconds slept after failed attempt n
WaitMin == 1
WaitMax == 10
RECURSIVE Pow2(_)
Pow2(n) == IF n <= 0 THEN 1 ELSE 2 * Pow2(n - 1)
wait_exponential(n) == Max(WaitMin, Min(Pow2(n - 1), WaitMax))

stop_after_attempt_5(n) == n >= 5
stop_after_attempt(n) == n >= MaxAttempts

\* The decorators give tenacity no `retry=` argument, so its default applies:
\* retry_if_exception_type(Exception), every exception is retried.
should_retry(e) == TRUE

NoRet == [kind |-> "none"]
Value(v) == [kind |-> "value", v |-> v]
Raise(e) == [kind |-> "exc", e |-> e]

Exc(type, msg, status) == [exc |-> type, msg |-> msg, status |-> status]

\* `"HTTP 401" in str(e)`: the four messages built by the fetchers read
\* "<prefix>HTTP <status> ...", the other messages of app.py hold no "HTTP".
HttpMessages == {"HTTP", "Transient HTTP", "Download HTTP", "Transient download HTTP"}
MentionsHttp401(e) == e.msg \in HttpMessages /\ e.status = 401

\* A response: status 0 stands for a connection-level failure (requests
\* raises and there is no response); json says whether r.json() succeeds.
ConnFailure == [status |-> 0, json |-> FALSE, body |-> <<>>]
ErrorStatuses == {401, 404, 500}
ErrorResponses ==
    {ConnFailure} \cup {[status |-> s, json |-> FALSE, body |-> <<>>] : s \in ErrorStatuses}

\* get_json and post_json, lines 64-82 and 85-103, on one response
json_outcome(r) ==
    IF r.status = 0 THEN Raise(Exc("ConnectionError", "connection", 0))
    ELSE IF r.status \in TransientStatuses
         THEN Raise(Exc("RuntimeError", "Transient HTTP", r.status))
    ELSE IF r.status >= 400 THEN Raise(Exc("RuntimeError", "HTTP", r.status))
    ELSE IF r.json THEN Value(r.body)
    ELSE Raise(Exc("JSONDecodeError", "json", r.status))

\* download_bytes, lines 106-112, on one response
bytes_outcome(r) ==
    IF r.status = 0 THEN Raise(Exc("ConnectionError", "connection", 0))
    ELSE IF r.status \in TransientStatuses
         THEN Raise(Exc("RuntimeError", "Transient download HTTP", r.status))
    ELSE IF r.status >= 400 THEN Raise(Exc("RuntimeError", "Download HTTP", r.status))
    ELSE Value(r.body)

outcome(fn, r) == IF fn = "download_bytes" THEN bytes_outcome(r) ELSE json_outcome(r)

\* reraise=True: when tenacity stops, the caller gets the last attempt's own
\* exception
reraise(out) == out

FetchIdle ==
    [fn |-> "none", url |-> "none", arg |-> <<>>, token |-> None,
     attempt_number |-> 0, idle_for |-> 0, status |-> 0, outcome |-> NoRet]

\* a call of a decorated fetcher: tenacity starts its statistics afresh
StartFetch(fn, url, arg, token) ==
    [fn |-> fn, url |-> url, arg |-> arg, token |-> token,
     attempt_number |-> 0, idle_for |-> 0, status |-> 0, outcome |-> NoRet]

Fetchers == {"get_json", "post_json", "download_bytes"}
AuthUrls == {"attachments", "download"}

----------------------------------------------------------------------------
(* Call stack                                                              *)

Frame(fn, pc) == [fn |-> fn, pc |-> pc]
TopF == stack[Len(stack)]
At(fn, pc) == stack # <<>> /\ TopF.fn = fn /\ TopF.pc = pc
Pop == SubSeq(stack, 1, Len(stack) - 1)
SetPc(pc) == [stack EXCEPT ![Len(stack)].pc = pc]
\* the caller moves to pc and the callee starts
Call(pc, fn, start) == Append(SetPc(pc), Frame(fn, start))
Idle == stack = <<>>

----------------------------------------------------------------------------
(* What the upstreams may answer                                           *)

Ok(body) == [status |-> 200, json |-> TRUE, body |-> body]
NotJson == [status |-> 200, json |-> FALSE, body |-> <<>>]

\* POST /api/sso/login: the "token" field of the answer
TokenBodies == {<<>>, <<" ">>, <<"A">>, <<" ", "B">>}

\* one descriptor of att["bilans"]
Bilan(id, deleted, dateCloture) ==
    [id |-> id, deleted |-> deleted, dateCloture |-> dateCloture,
     dateDepot |-> None, confidentiality |-> <<"Public">>]
DeletedBilan == Bilan(<<"9">>, TRUE, <<"a">>)
BlankIdBilan == Bilan(<<" ">>, FALSE, <<"a">>)
\* two different documents of the same dates and confidentiality
BilanPool ==
    {DeletedBilan, BlankIdBilan,
     Bilan(<<"1">>, FALSE, <<"a", "/", "b">>),
     Bilan(<<"2", " ">>, FALSE, <<"a", "/", "b">>)}

RECURSIVE SeqsUpTo(_, _)
SeqsUpTo(S, n) ==
    IF n = 0 THEN {<<>>}
    ELSE LET shorter == SeqsUpTo(S, n - 1)
         IN shorter \cup {Append(s, x) : s \in {t \in shorter : Len(t) = n - 1}, x \in S}

\* GET /api/companies/{siren}/attachments: the "bilans" field of the answer
Listings == SeqsUpTo(BilanPool, MaxBilans)

\* GET /api/bilans/{id}/download: the document the upstream keeps under id
PdfOf(id) == <<"%PDF">> \o id

Digits == {"0", "1", "2", "3", "4", "5", "6", "7", "8", "9"}
DigitOf(k) == CHOOSE d \in Digits : d = ToString(k % 10)
\* nine digits, the k-th company's
Siren(k) ==
    [i \in 1..9 |-> IF i = 9 THEN DigitOf(k) ELSE IF i = 8 THEN DigitOf(k \div 10) ELSE "1"]
Denominations == <<<<"A", "/", "B">>, None, <<"C", "\\", "D">>>>
DenomOf(k) == Denominations[((k - 1) % Len(Denominations)) + 1]

\* one entry of the "results" of GET /search
Raw(siren, denomination, adresse, ville) ==
    [siren |-> siren, denomination |-> denomination, adresse |-> adresse, ville |-> ville]
AddrX == <<"x">>
AddrY == <<"y">>
\* the same siren written " 111 111.1kk"
Spaced(s) ==
    <<" ">> \o SubSeq(s, 1, 3) \o <<" ">> \o SubSeq(s, 4, 6) \o <<".">> \o SubSeq(s, 7, 9)
Valid(k) == Raw(Siren(k), DenomOf(k), IF k % 2 = 0 THEN AddrY ELSE AddrX, <<"V">>)
\* eight digits, and nine characters of which seven digits
Malformed8 == Raw(SubSeq(Siren(3), 1, 8), <<"M">>, AddrX, None)
MalformedFR == Raw(<<"F", "R">> \o SubSeq(Siren(4), 1, 7), <<"M">>, AddrY, None)
\* a duplicate, a malformed entry and an entry without address
PageSmall ==
    <<Valid(1), Raw(Spaced(Siren(1)), <<"d">>, AddrY, None), Malformed8,
      Raw(Siren(2), <<"D">>, None, <<"V">>)>>
\* twelve raw results of which ten are valid
PageTwelve ==
    [k \in 1..12 |-> IF k <= 10 THEN Valid(k) ELSE IF k = 11 THEN Malformed8 ELSE MalformedFR]
PageBad == <<MalformedFR, Raw(None, <<"M">>, AddrX, None)>>
FirstPages == {PageSmall, PageTwelve, PageBad}
SecondPages == {<<>>, <<Valid(11), Raw(Spaced(Siren(1)), <<"d">>, AddrX, None)>>}
PostCode == <<"35000">>
\* "features" of GET /reverse/ and of GET /search/ of the BAN
ReverseFeatures == {<<>>, <<[postcode |-> None]>>, <<[postcode |-> PostCode]>>}
GeocodeFeatures == {<<>>, <<[lat |-> 49, lon |-> -3]>>, <<[lat |-> 51, lon |-> -3]>>}

\* six valid results, for a ranked set larger than the selection may be
PageSix == [k \in 1..6 |-> Valid(k)]
\* three valid results, one of them in PageSmall too
PageThree == <<Valid(2), Valid(3), Valid(4)>>

\* The sets of answers the specifications draw from: every kind of failure
\* with short listings ("auth"); every listing, page and geocoding with one
\* kind of failure ("zip", "search"); pages of six results and fewer, every
\* address found ("select"); pages of three results and fewer with every
\* geocoding ("session").
Answers(u) ==
    IF u = "auth" THEN
    [errors |-> ErrorResponses \cup {NotJson},
     tokens |-> TokenBodies,
     listings |-> {<<>>, <<DeletedBilan, Bilan(<<"1">>, FALSE, <<"a">>)>>},
     pages |-> FirstPages, second |-> SecondPages, features |-> GeocodeFeatures]
    ELSE IF u = "select" THEN
    [errors |-> {[status |-> 500, json |-> FALSE, body |-> <<>>]},
     tokens |-> {<<"A">>},
     listings |-> {<<>>},
     pages |-> {PageSix, PageSmall, PageBad}, second |-> {<<>>},
     features |-> {<<[lat |-> 49, lon |-> -3]>>}]
    ELSE IF u = "session" THEN
    [errors |-> {[status |-> 500, json |-> FALSE, body |-> <<>>]},
     tokens |-> {<<"A">>},
     listings |-> {<<>>},
     pages |-> {PageThree, PageSmall, PageBad}, second |-> {<<>>, <<Valid(1)>>},
     features |-> GeocodeFeatures]
    ELSE
    [errors |-> {[status |-> 500, json |-> FALSE, body |-> <<>>]},
     tokens |-> {<<"A">>},
     listings |-> Listings,
     pages |-> FirstPages, second |-> SecondPages, features |-> GeocodeFeatures]

Responses(url, arg) ==
    CASE url = "login" -> Answers(upstream).errors \cup {Ok(t) : t \in Answers(upstream).tokens}
      [] url = "attachments" ->
           Answers(upstream).errors \cup {Ok(l) : l \in Answers(upstream).listings}
      [] url = "download" -> (Answers(upstream).errors \ {NotJson}) \cup {Ok(PdfOf(arg))}
      [] url = "reverse" -> Answers(upstream).errors \cup {Ok(f) : f \in ReverseFeatures}
      [] url = "search" ->
           Answers(upstream).errors
           \cup {Ok(p) : p \in {q \in IF arg.page = 1 THEN Answers(upstream).pages
                                        ELSE Answers(upstream).second :
                                   Len(q) <= arg.per_page}}
      [] url = "geocode" ->
           Answers(upstream).errors \cup {Ok(f) : f \in Answers(upstream).features}
      [] OTHER -> {}

----------------------------------------------------------------------------
(* Observer of the session's traffic to the INPI upstream.  It records the *)
(* logins and the tokens sent for as long as no response was a 401 and no  *)
(* refresh was forced, and nothing after that.                             *)

Sat(n) == Min(n + 1, MaxCount)

\* it also keeps, while it is on, what the last completed search was given
\* and the ranked set it stored
NoSearch == [none |-> TRUE, key |-> <<>>, df |-> <<>>, repeat |-> FALSE]
HistInit == [on |-> TRUE, logins |-> 0, logins_ok |-> 0, sent |-> {}, search |-> NoSearch]
HistOff == [on |-> FALSE, logins |-> 0, logins_ok |-> 0, sent |-> {}, search |-> NoSearch]

NoOp == [fn |-> "none", arg |-> <<>>, phase |-> 0, cached |-> FALSE, logins |-> 0]
NewOp(fn, arg) ==
    [fn |-> fn, arg |-> arg, phase |-> 1, cached |-> inpi_token # None, logins |-> 0]

----------------------------------------------------------------------------
(* tenacity.retry around get_json, post_json, download_bytes (63, 84, 105) *)

\* one attempt: the request is sent and answered (or the connection fails)
Send ==
    /\ stack # <<>> /\ TopF.fn \in Fetchers /\ TopF.pc = "send"
    /\ \E r \in Responses(fetch.url, fetch.arg) :
         LET n == fetch.attempt_number + 1
             out == outcome(fetch.fn, r)
             again == /\ out.kind = "exc"
                      /\ should_retry(out.e)
                      /\ ~stop_after_attempt(n)
         IN /\ fetch' = [fetch EXCEPT !.attempt_number = n, !.status = r.status,
                                      !.outcome = out]
            /\ ret' = IF again THEN NoRet
                      ELSE IF out.kind = "exc" THEN reraise(out) ELSE out
            /\ stack' = IF again THEN SetPc("wait") ELSE Pop
            /\ hist' = IF ~hist.on THEN hist
                       ELSE IF r.status = 401 THEN HistOff
                       ELSE IF fetch.url \in AuthUrls
                            THEN [hist EXCEPT !.sent = @ \cup {fetch.token}]
                       ELSE hist
    /\ UNCHANGED <<secrets, session, tok, op, zip, zf, srch>>

\* the back-off sleep between two attempts
Wait ==
    /\ stack # <<>> /\ TopF.fn \in Fetchers /\ TopF.pc = "wait"
    /\ fetch' = [fetch EXCEPT !.idle_for = @ + wait_exponential(fetch.attempt_number)]
    /\ stack' = SetPc("send")
    /\ UNCHANGED <<secrets, session, ret, tok, op, zip, zf, srch, hist>>

----------------------------------------------------------------------------
(* INPI authentication: inpi_login, get_inpi_token, inpi_headers           *)

secrets_never_missing == FALSE
\* line 150
secrets_missing == INPI_USERNAME = <<>> \/ INPI_PASSWORD = <<>>

\* inpi_login, lines 150-155
InpiLogin ==
    /\ At("inpi_login", "start")
    /\ hist' = IF hist.on THEN [hist EXCEPT !.logins = Sat(@)] ELSE hist
    /\ op' = IF op.fn = "none" THEN op ELSE [op EXCEPT !.logins = @ + 1]
    /\ IF secrets_missing
       THEN /\ ret' = Raise(Exc("RuntimeError", "Secrets INPI manquants", 0))
            /\ stack' = Pop
            /\ fetch' = fetch
       ELSE /\ ret' = NoRet
            /\ stack' = Call("posted", "post_json", "send")
            /\ fetch' = StartFetch("post_json", "login", <<>>, None)
    /\ UNCHANGED <<secrets, session, tok, zip, zf, srch>>

\* inpi_login, lines 155-159
InpiLoginReturn ==
    /\ At("inpi_login", "posted") /\ ret # NoRet
    /\ LET token == strip(ret.v)
       IN IF ret.kind = "exc" THEN ret' = ret /\ hist' = hist
          ELSE IF token = <<>>
               THEN /\ ret' = Raise(Exc("RuntimeError", "token absent", 0))
                    /\ hist' = hist
          ELSE /\ ret' = Value(token)
               /\ hist' = IF hist.on THEN [hist EXCEPT !.logins_ok = Sat(@)] ELSE hist
    /\ stack' = Pop
    /\ fetch' = FetchIdle
    /\ UNCHANGED <<secrets, session, tok, op, zip, zf, srch>>

always_login(force, token) == TRUE
\* line 165: `force or not st.session_state.get("inpi_token")`
need_login(force, token) == force \/ token = None

\* get_inpi_token, line 165; inpi_headers calls it with force = FALSE
GetInpiToken ==
    /\ At("get_inpi_token", "start")
    /\ IF need_login(tok.force, inpi_token)
       THEN stack' = Call("login", "inpi_login", "start") /\ ret' = NoRet
       ELSE stack' = Pop /\ ret' = Value(inpi_token)
    /\ UNCHANGED <<secrets, session, fetch, tok, op, zip, zf, srch, hist>>

\* get_inpi_token, lines 166-167
GetInpiTokenStore ==
    /\ At("get_inpi_token", "login") /\ ret # NoRet
    /\ inpi_token' = IF ret.kind = "value" THEN ret.v ELSE inpi_token
    /\ stack' = Pop
    /\ UNCHANGED <<secrets, results_df, selected_sirens, click_latlon, last_cp,
                   ret, fetch, tok, op, zip, zf, srch, hist>>

\* sidebar button "Tester login INPI", lines 276-278
TestLoginButton ==
    /\ Idle
    /\ tok' = [force |-> TRUE]
    /\ stack' = <<Frame("test_login", "called"), Frame("get_inpi_token", "start")>>
    /\ hist' = HistOff
    /\ UNCHANGED <<secrets, session, ret, fetch, op, zip, zf, srch>>

\* lines 279-282: st.success or st.error, and the script run ends
TestLoginDone ==
    /\ At("test_login", "called") /\ ret # NoRet
    /\ stack' = <<>>
    /\ ret' = NoRet
    /\ UNCHANGED <<secrets, session, fetch, tok, op, zip, zf, srch, hist>>

----------------------------------------------------------------------------
(* inpi_get_attachments (173-185) and inpi_download_bilan_pdf (187-198):   *)
(* the same code around get_json and download_bytes                        *)

InpiCalls == {"inpi_get_attachments", "inpi_download_bilan_pdf"}
FetcherOf(fn) == IF fn = "inpi_get_attachments" THEN "get_json" ELSE "download_bytes"
UrlOf(fn) == IF fn = "inpi_get_attachments" THEN "attachments" ELSE "download"
AtCall(pc) == stack # <<>> /\ TopF.fn \in InpiCalls /\ TopF.pc = pc

\* headers=inpi_headers(), lines 179/184 and 193/197
InpiHeaders ==
    /\ AtCall("start")
    /\ tok' = [force |-> FALSE]
    /\ stack' = Call("headers", "get_inpi_token", "start")
    /\ UNCHANGED <<secrets, session, ret, fetch, op, zip, zf, srch, hist>>

\* get_json(url, headers=...) / download_bytes(url, headers=...)
InpiRequest ==
    /\ AtCall("headers") /\ ret.kind = "value"
    /\ fetch' = StartFetch(FetcherOf(TopF.fn), UrlOf(TopF.fn), op.arg, ret.v)
    /\ stack' = Call("fetched", FetcherOf(TopF.fn), "send")
    /\ ret' = NoRet
    /\ UNCHANGED <<secrets, session, tok, op, zip, zf, srch, hist>>

\* return get_json(...) / return download_bytes(...)
InpiReturn ==
    /\ AtCall("fetched") /\ ret.kind = "value"
    /\ stack' = Pop
    /\ fetch' = FetchIdle
    /\ UNCHANGED <<secrets, session, ret, tok, op, zip, zf, srch, hist>>

\* except RuntimeError as e: lines 180-185 and 194-198.  The try block holds
\* the evaluation of inpi_headers() too; the calls of the handler (phase 2)
\* are outside any try.
retry_after_401(phase, e) ==
    phase = 1 /\ e.exc = "RuntimeError" /\ MentionsHttp401(e)

InpiExcept ==
    /\ (AtCall("headers") \/ AtCall("fetched")) /\ ret.kind = "exc"
    /\ fetch' = FetchIdle
    /\ IF retry_after_401(op.phase, ret.e)
       THEN /\ inpi_token' = None
            /\ op' = [op EXCEPT !.phase = 2]
            /\ stack' = SetPc("start")
            /\ ret' = NoRet
       ELSE /\ stack' = Pop
            /\ UNCHANGED <<inpi_token, op, ret>>
    /\ UNCHANGED <<secrets, results_df, selected_sirens, click_latlon, last_cp,
                   tok, zip, zf, srch, hist>>

----------------------------------------------------------------------------
(* build_zip_inpi, lines 200-255                                           *)

Or(x, default) == IF x = <<>> THEN default ELSE x

\* lines 212-213
folder_of(ent) ==
    LET name == Take(replace(replace(Or(ent.denomination, <<"entreprise">>),
                                     "/", "-"), "\\", "-"), NameCap)
    IN ent.siren \o <<"_">> \o name

\* lines 235-239
filename_of(b) ==
    LET date_cloture == Or(b.dateCloture, <<"date_inconnue">>)
        date_depot == Or(b.dateDepot, <<"depot_inconnu">>)
        confidentiality == Or(b.confidentiality, <<"Unknown">>)
        filename == <<"bilan_">> \o date_cloture \o <<"_depot_">> \o date_depot
                    \o <<"_">> \o confidentiality \o <<".pdf">>
    IN replace(replace(filename, " ", "_"), "/", "-")

retained_though_deleted(b) == strip(b.id) # <<>>
retained_though_blank(b) == ~(b.deleted = TRUE)
\* lines 229-233: the entries the loop does not `continue` past
retained(b) == ~(b.deleted = TRUE) /\ strip(b.id) # <<>>

\* zf.writestr(name, data)
Entry(kind, name, data) == [kind |-> kind, name |-> name, data |-> data]
Path(folder, file) == folder \o <<"/">> \o file

ZipIdle == [selected |-> <<>>, i |-> 0, bilans |-> <<>>, j |-> 0, count_ok |-> 0]
AtZip(pc) == At("build_zip_inpi", pc)
ent_i == zip.selected[zip.i]
b_j == zip.bilans[zip.j]

except_nothing(e) == FALSE
\* `except Exception as e`, lines 217 and 248
except_Exception(e) == TRUE

\* line 210: the next company, or lines 254-255: the archive is returned
ZipCompany ==
    /\ AtZip("company")
    /\ IF zip.i > Len(zip.selected)
       THEN /\ ret' = Value(zf)
            /\ stack' = Pop
            /\ op' = op
       ELSE /\ ret' = NoRet
            /\ op' = NewOp("inpi_get_attachments", ent_i.siren)
            /\ stack' = Call("listed", "inpi_get_attachments", "start")
    /\ UNCHANGED <<secrets, session, fetch, tok, zip, zf, srch, hist>>

\* lines 215-227
ZipListed ==
    /\ AtZip("listed") /\ ret # NoRet
    /\ op' = NoOp
    /\ IF ret.kind = "exc" /\ ~except_Exception(ret.e)
       THEN stack' = Pop /\ UNCHANGED <<ret, zf, zip>>
       ELSE IF ret.kind = "exc"
       THEN /\ zf' = Append(zf, Entry("txt", Path(folder_of(ent_i), <<"README_erreur.txt">>),
                                      <<"Erreur attachments INPI">>))
            /\ zip' = [zip EXCEPT !.i = @ + 1]
            /\ stack' = SetPc("company")
            /\ ret' = NoRet
       ELSE IF ret.v = <<>>
       THEN /\ zf' = Append(zf, Entry("txt", Path(folder_of(ent_i), <<"README.txt">>),
                                      <<"Aucun bilan">>))
            /\ zip' = [zip EXCEPT !.i = @ + 1]
            /\ stack' = SetPc("company")
            /\ ret' = NoRet
       ELSE /\ zf' = zf
            /\ zip' = [zip EXCEPT !.bilans = ret.v, !.j = 1, !.count_ok = 0]
            /\ stack' = SetPc("entry")
            /\ ret' = NoRet
    /\ UNCHANGED <<secrets, session, fetch, tok, srch, hist>>

\* lines 229-233: a deleted entry or one without id is passed over
ZipSkip ==
    /\ AtZip("entry") /\ zip.j <= Len(zip.bilans) /\ ~retained(b_j)
    /\ zip' = [zip EXCEPT !.j = @ + 1]
    /\ UNCHANGED <<secrets, session, stack, ret, fetch, tok, op, zf, srch, hist>>

\* line 242: time.sleep(0.25)
ZipSleep ==
    /\ AtZip("entry") /\ zip.j <= Len(zip.bilans) /\ retained(b_j)
    /\ stack' = SetPc("slept")
    /\ UNCHANGED <<secrets, session, ret, fetch, tok, op, zip, zf, srch, hist>>

\* line 245: inpi_download_bilan_pdf(bilan_id)
ZipDownload ==
    /\ AtZip("slept")
    /\ op' = NewOp("inpi_download_bilan_pdf", strip(b_j.id))
    /\ stack' = Call("downloaded", "inpi_download_bilan_pdf", "start")
    /\ UNCHANGED <<secrets, session, ret, fetch, tok, zip, zf, srch, hist>>

\* lines 246-249
ZipDownloaded ==
    /\ AtZip("downloaded") /\ ret # NoRet
    /\ op' = NoOp
    /\ IF ret.kind = "exc" /\ ~except_Exception(ret.e)
       THEN stack' = Pop /\ UNCHANGED <<ret, zf, zip>>
       ELSE IF ret.kind = "value"
       THEN /\ zf' = Append(zf, Entry("pdf", Path(folder_of(ent_i), filename_of(b_j)), ret.v))
            /\ zip' = [zip EXCEPT !.j = @ + 1, !.count_ok = @ + 1]
            /\ stack' = SetPc("entry")
            /\ ret' = NoRet
       ELSE /\ zf' = Append(zf, Entry("txt", Path(folder_of(ent_i),
                                                  <<"ERREUR_">> \o strip(b_j.id) \o <<".txt">>),
                                      <<"Erreur download bilan">>))
            /\ zip' = [zip EXCEPT !.j = @ + 1]
            /\ stack' = SetPc("entry")
            /\ ret' = NoRet
    /\ UNCHANGED <<secrets, session, fetch, tok, srch, hist>>

\* lines 251-252, after the last entry of a company
ZipEndCompany ==
    /\ AtZip("entry") /\ zip.j > Len(zip.bilans)
    /\ zf' = IF zip.count_ok = 0
             THEN Append(zf, Entry("txt", Path(folder_of(ent_i), <<"README.txt">>),
                                   <<"aucun PDF">>))
             ELSE zf
    /\ zip' = [zip EXCEPT !.i = @ + 1]
    /\ stack' = SetPc("company")
    /\ UNCHANGED <<secrets, session, ret, fetch, tok, op, srch, hist>>

----------------------------------------------------------------------------
(* The right-hand panel, lines 354-386                                     *)

NoDf == [none |-> TRUE, rows |-> <<>>]
Df(rows) == [none |-> FALSE, rows |-> rows]

Range(s) == {s[i] : i \in 1..Len(s)}
NoDup(s) == \A i, j \in 1..Len(s) : s[i] = s[j] => i = j

\* line 367
options == [k \in 1..Len(results_df.rows) |-> results_df.rows[k].siren]

IsIn(x, S) == x \in S

\* line 372: the rows of df whose siren is selected, in df's order
selected_rows ==
    LET keep(r) == IsIn(r.siren, Range(selected_sirens))
        rows == SelectSeq(results_df.rows, keep)
    IN [k \in 1..Len(rows) |-> [siren |-> rows[k].siren,
                                 denomination |-> rows[k].denomination]]

\* line 374
dl_disabled ==
    Len(selected_rows) = 0 \/ INPI_USERNAME = <<>> \/ INPI_PASSWORD = <<>>

\* the panel is drawn only past the two st.stop() of lines 358-363
PanelShown == ~results_df.none /\ results_df.rows # <<>>

\* line 368
default_sel ==
    LET keep(x) == IsIn(x, Range(options)) IN SelectSeq(selected_sirens, keep)

Without(sel, k) == SubSeq(sel, 1, k - 1) \o SubSeq(sel, k + 1, Len(sel))

multiselect_uncapped(opts, default, max_selections) ==
    {Append(default, o) : o \in Range(opts) \ Range(default)}
    \cup {Without(default, k) : k \in 1..Len(default)}
\* line 369: what st.multiselect returns after one more interaction of the
\* user, who picks a further option, while fewer than max_selections are
\* picked, or removes one; the options are in the order picked
multiselect(opts, default, max_selections) ==
    {Append(default, o) : o \in IF Len(default) < max_selections
                                THEN Range(opts) \ Range(default) ELSE {}}
    \cup {Without(default, k) : k \in 1..Len(default)}

\* lines 368-370: the user changes the multiselect (max_selections=5)
Multiselect ==
    /\ Idle /\ PanelShown
    /\ selected_sirens' \in multiselect(options, default_sel, MaxSelections)
    /\ UNCHANGED <<secrets, inpi_token, results_df, click_latlon, last_cp,
                   stack, ret, fetch, tok, op, zip, zf, srch, hist>>

\* lines 375-378: button "4) Télécharger les comptes annuels (ZIP)"
ZipButton ==
    /\ Idle /\ PanelShown /\ ~dl_disabled
    /\ zip' = [ZipIdle EXCEPT !.selected = selected_rows, !.i = 1]
    /\ zf' = <<>>
    /\ stack' = <<Frame("zip_button", "called"), Frame("build_zip_inpi", "company")>>
    /\ UNCHANGED <<secrets, session, ret, fetch, tok, op, srch, hist>>

\* lines 379-383: st.download_button or st.error, and the script run ends
ZipDone ==
    /\ At("zip_button", "called") /\ ret # NoRet
    /\ stack' = <<>>
    /\ ret' = NoRet
    /\ zip' = ZipIdle
    /\ zf' = <<>>
    /\ UNCHANGED <<secrets, session, fetch, tok, op, srch, hist>>

----------------------------------------------------------------------------
(* Search: BAN and Recherche Entreprises, lines 117-140 and 286-349        *)

\* 10**9 of line 341, head(10) of line 345, the API's page size of line 136
\* and R of line 53
Sentinel == 1000000000
HeadCount == 10
PerPageMax == 25
EarthRadiusKm == 6371

IsDigit(c) == c \in Digits

\* lines 35-36: re.sub(r"\D", "", (s or "").strip())
only_digits(s) == SelectSeq(strip(s), IsDigit)

Abs(x) == IF x < 0 THEN -x ELSE x

\* lines 52-58, in whole degrees and whole kilometres, for two points of one
\* meridian: dl = 0, a = sin(dphi/2)^2 and the distance is R * |dphi|
haversine_km(lat1, lon1, lat2, lon2) ==
    (EarthRadiusKm * 31416 * Abs(lat2 - lat1)) \div (180 * 10000)

unclamped(per_page) == per_page
\* line 136
clamp_per_page(per_page) == Max(1, Min(per_page, PerPageMax))

\* lines 137-139: the query of search_companies_by_cp; an empty code_naf is
\* left out of it
search_params(code_postal, code_naf, per_page, page) ==
    [code_postal |-> code_postal, code_naf |-> code_naf, page |-> page,
     per_page |-> clamp_per_page(per_page)]

\* lines 121-124, on the "features" of the answer
reverse_result(feats) == IF feats = <<>> THEN None ELSE feats[1].postcode

\* lines 128-132, on the "features" of the answer: (lat, lon) or (None, None)
geocode_result(feats) == IF feats = <<>> THEN <<>> ELSE <<feats[1].lat, feats[1].lon>>

\* lines 323-329: the row of one raw result, None when it is skipped
candidate_row(r, cp) ==
    LET siren == only_digits(Or(r.siren, <<>>))
        denom == Or(r.denomination, <<>>)
        adresse == Or(r.adresse, <<>>)
        ville == Or(r.ville, <<>>)
        full_addr == IF adresse # <<>> THEN adresse
                     ELSE denom \o <<" ">> \o cp \o <<" ">> \o ville
    IN IF Len(siren) # 9 THEN <<>>
       ELSE <<[siren |-> siren, denomination |-> denom, adresse |-> adresse,
               ville |-> ville, full_addr |-> full_addr]>>

\* lines 321-330
RECURSIVE rows_of(_, _)
rows_of(results, cp) ==
    IF results = <<>> THEN <<>>
    ELSE rows_of(SubSeq(results, 1, Len(results) - 1), cp)
         \o candidate_row(results[Len(results)], cp)

\* line 332: drop_duplicates(subset=["siren"]) keeps the first of each siren
RECURSIVE drop_duplicates(_)
drop_duplicates(rows) ==
    IF rows = <<>> THEN <<>>
    ELSE LET init == drop_duplicates(SubSeq(rows, 1, Len(rows) - 1))
             last == rows[Len(rows)]
         IN IF \E i \in 1..Len(init) : init[i].siren = last.siren
            THEN init ELSE Append(init, last)

\* line 341
distance_of(lat, lon, coord) ==
    IF coord # <<>> THEN haversine_km(lat, lon, coord[1], coord[2]) ELSE Sentinel

unsorted(rows) == rows
selected_first(rows, n) ==
    LET chosen(r) == r.siren \in {selected_sirens[i] : i \in 1..Len(selected_sirens)}
        others(r) == ~chosen(r)
    IN Take(SelectSeq(rows, chosen) \o SelectSeq(rows, others), n)
\* line 345: sort_values("distance_km"), rows of equal distance staying in
\* the order they had
RECURSIVE sort_values(_)
sort_values(rows) ==
    IF rows = <<>> THEN <<>>
    ELSE LET init == sort_values(SubSeq(rows, 1, Len(rows) - 1))
             last == rows[Len(rows)]
             n == Cardinality({i \in 1..Len(init) : init[i].distance_km <= last.distance_km})
         IN SubSeq(init, 1, n) \o <<last>> \o SubSeq(init, n + 1, Len(init))

\* line 345: head(10)
head(rows, n) == Take(rows, n)

\* the locals of the handler and the entries of geocode_addr's st.cache_data
\* made during the run
SrchIdle ==
    [per_page |-> 0, use_two_pages |-> FALSE, cp |-> None, results |-> <<>>,
     df |-> <<>>, coords |-> <<>>, dists |-> <<>>, cache |-> {}]

CacheHit(addr) == \E c \in srch.cache : c.addr = addr
Cached(addr) == (CHOOSE c \in srch.cache : c.addr = addr).coord

\* the point the user may click, and where an address may be found
ClickPoints == {<<48, -3>>}
\* slider "Pool candidat (max 25)", line 290
PerPageChoices == {10, 25}
\* text input "NAF (optionnel)" left empty, line 288
naf == None

\* lines 298-301: a click on the map
MapClick ==
    /\ Idle
    /\ click_latlon' \in ClickPoints
    /\ UNCHANGED <<secrets, inpi_token, results_df, selected_sirens, last_cp,
                   stack, ret, fetch, tok, op, zip, zf, srch, hist>>

\* lines 303-308: button "2) Trouver les 10 entreprises les plus proches"
\* with a point clicked (without one the run only shows a warning)
SearchButton ==
    /\ Idle /\ click_latlon # <<>>
    /\ \E per_page \in PerPageChoices, two \in BOOLEAN :
         srch' = [SrchIdle EXCEPT !.per_page = per_page, !.use_two_pages = two]
    /\ stack' = <<Frame("search", "reversed"), Frame("reverse_postcode", "fetched"),
                  Frame("get_json", "send")>>
    /\ fetch' = StartFetch("get_json", "reverse", click_latlon, None)
    /\ UNCHANGED <<secrets, session, ret, tok, op, zip, zf, hist>>

\* reverse_postcode, lines 119-123
ReversePostcodeReturn ==
    /\ At("reverse_postcode", "fetched") /\ ret # NoRet
    /\ ret' = IF ret.kind = "exc" THEN ret ELSE Value(reverse_result(ret.v))
    /\ stack' = Pop
    /\ fetch' = FetchIdle
    /\ UNCHANGED <<secrets, session, tok, op, zip, zf, srch, hist>>

\* lines 309-311: st.error and st.stop()
SearchNoPostcode ==
    /\ At("search", "reversed") /\ ret.kind = "value" /\ ret.v = None
    /\ stack' = <<>>
    /\ ret' = NoRet
    /\ srch' = SrchIdle
    /\ UNCHANGED <<secrets, session, fetch, tok, op, zip, zf, hist>>

\* lines 312-315
SearchPage1 ==
    /\ At("search", "reversed") /\ ret.kind = "value" /\ ret.v # None
    /\ last_cp' = ret.v
    /\ srch' = [srch EXCEPT !.cp = ret.v]
    /\ stack' = Append(Call("page1", "search_companies_by_cp", "fetched"),
                       Frame("get_json", "send"))
    /\ fetch' = StartFetch("get_json", "search",
                           search_params(ret.v, naf, srch.per_page, 1), None)
    /\ ret' = NoRet
    /\ UNCHANGED <<secrets, inpi_token, results_df, selected_sirens, click_latlon,
                   tok, op, zip, zf, hist>>

\* search_companies_by_cp called on its own, lines 135-140: op holds the
\* arguments
SearchCompaniesCall ==
    /\ At("search_companies_by_cp", "start")
    /\ stack' = Append(SetPc("fetched"), Frame("get_json", "send"))
    /\ fetch' = StartFetch("get_json", "search",
                           search_params(op.arg.code_postal, op.arg.code_naf,
                                         op.arg.per_page, op.arg.page), None)
    /\ UNCHANGED <<secrets, session, ret, tok, op, zip, zf, srch, hist>>

\* search_companies_by_cp, line 140
SearchCompaniesReturn ==
    /\ At("search_companies_by_cp", "fetched") /\ ret # NoRet
    /\ stack' = Pop
    /\ fetch' = FetchIdle
    /\ UNCHANGED <<secrets, session, ret, tok, op, zip, zf, srch, hist>>

\* lines 316-318 with the box "2 pages" ticked
SearchPage2 ==
    /\ At("search", "page1") /\ ret.kind = "value" /\ srch.use_two_pages
    /\ srch' = [srch EXCEPT !.results = ret.v]
    /\ stack' = Append(Call("page2", "search_companies_by_cp", "fetched"),
                       Frame("get_json", "send"))
    /\ fetch' = StartFetch("get_json", "search",
                           search_params(srch.cp, naf, srch.per_page, 2), None)
    /\ ret' = NoRet
    /\ UNCHANGED <<secrets, session, tok, op, zip, zf, hist>>

\* lines 316-319: the raw results are complete; the two widgets are not read
\* again in the run
SearchResults ==
    /\ \/ At("search", "page1") /\ ~srch.use_two_pages
       \/ At("search", "page2")
    /\ ret.kind = "value"
    /\ srch' = [srch EXCEPT !.results = @ \o ret.v, !.per_page = 0,
                            !.use_two_pages = FALSE]
    /\ stack' = SetPc("rows")
    /\ ret' = NoRet
    /\ UNCHANGED <<secrets, session, fetch, tok, op, zip, zf, hist>>

\* what the run was given: the point, the postcode found, the raw results
\* of the pages and the geocoder's answer for each address asked
SearchKey ==
    <<click_latlon, naf, srch.per_page, srch.use_two_pages, srch.cp, srch.results,
      srch.cache>>
\* the observer's record of a search that completes with the ranked set df;
\* repeat tells that the search before it had the same inputs and answers
\* and that companies were selected since
Observed(df) ==
    IF hist.on
    THEN [hist EXCEPT !.search =
            [none |-> FALSE, key |-> SearchKey, df |-> df,
             repeat |-> /\ ~hist.search.none /\ hist.search.key = SearchKey
                        /\ selected_sirens # <<>>]]
    ELSE hist

\* lines 321-334 with no candidate left: an empty ranked set is stored and
\* the selection is left as it is
SearchNoCandidate ==
    /\ At("search", "rows")
    /\ drop_duplicates(rows_of(srch.results, srch.cp)) = <<>>
    /\ results_df' = Df(<<>>)
    /\ stack' = <<>>
    /\ srch' = SrchIdle
    /\ hist' = Observed(<<>>)
    /\ UNCHANGED <<secrets, inpi_token, selected_sirens, click_latlon, last_cp,
                   ret, fetch, tok, op, zip, zf>>

\* lines 321-337
SearchCandidates ==
    /\ At("search", "rows")
    /\ drop_duplicates(rows_of(srch.results, srch.cp)) # <<>>
    /\ srch' = [srch EXCEPT !.df = drop_duplicates(rows_of(srch.results, srch.cp))]
    /\ stack' = SetPc("geocode")
    /\ UNCHANGED <<secrets, session, ret, fetch, tok, op, zip, zf, hist>>

\* the address the loop of line 338 is at
addr_k == srch.df[Len(srch.dists) + 1].full_addr

\* lines 339-341 with (la, lo) in hand
geocoded(coord) ==
    [srch EXCEPT !.coords = Append(@, coord),
                 !.dists = Append(@, distance_of(click_latlon[1], click_latlon[2], coord))]

\* lines 338-341: geocode_addr answers from st.cache_data
GeocodeCached ==
    /\ At("search", "geocode") /\ ret = NoRet
    /\ Len(srch.dists) < Len(srch.df)
    /\ CacheHit(addr_k)
    /\ srch' = geocoded(Cached(addr_k))
    /\ UNCHANGED <<secrets, session, stack, ret, fetch, tok, op, zip, zf, hist>>

\* lines 338-339 and 127: geocode_addr runs
GeocodeCall ==
    /\ At("search", "geocode") /\ ret = NoRet
    /\ Len(srch.dists) < Len(srch.df)
    /\ ~CacheHit(addr_k)
    /\ stack' = Append(Call("geocode", "geocode_addr", "fetched"),
                       Frame("get_json", "send"))
    /\ fetch' = StartFetch("get_json", "geocode", addr_k, None)
    /\ UNCHANGED <<secrets, session, ret, tok, op, zip, zf, srch, hist>>

\* geocode_addr, lines 128-132: a returned value is cached, an exception is
\* not
GeocodeAddrReturn ==
    /\ At("geocode_addr", "fetched") /\ ret # NoRet
    /\ IF ret.kind = "exc"
       THEN UNCHANGED <<ret, srch>>
       ELSE /\ ret' = Value(geocode_result(ret.v))
            /\ srch' = [srch EXCEPT !.cache = @ \cup {[addr |-> fetch.arg,
                                                      coord |-> geocode_result(ret.v)]}]
    /\ stack' = Pop
    /\ fetch' = FetchIdle
    /\ UNCHANGED <<secrets, session, tok, op, zip, zf, hist>>

\* lines 339-341
SearchGeocoded ==
    /\ At("search", "geocode") /\ ret.kind = "value"
    /\ srch' = geocoded(ret.v)
    /\ ret' = NoRet
    /\ UNCHANGED <<secrets, session, stack, fetch, tok, op, zip, zf, hist>>

\* lines 342-345
ranked(df, coords, dists) ==
    head(sort_values([k \in 1..Len(df) |->
                        [siren |-> df[k].siren, denomination |-> df[k].denomination,
                         adresse |-> df[k].adresse, ville |-> df[k].ville,
                         full_addr |-> df[k].full_addr, coord |-> coords[k],
                         distance_km |-> dists[k]]]),
         HeadCount)

\* lines 342-349: the ranked set is stored and the selection reduced to it
SearchStore ==
    /\ At("search", "geocode") /\ ret = NoRet
    /\ Len(srch.dists) = Len(srch.df)
    /\ LET df == ranked(srch.df, srch.coords, srch.dists)
           allowed == {df[k].siren : k \in 1..Len(df)}
           keep(s) == IsIn(s, allowed)
       IN /\ results_df' = Df(df)
          /\ selected_sirens' = SelectSeq(selected_sirens, keep)
          /\ hist' = Observed(df)
    /\ stack' = <<>>
    /\ srch' = SrchIdle
    /\ UNCHANGED <<secrets, inpi_token, click_latlon, last_cp, ret, fetch, tok, op,
                   zip, zf>>

\* an exception reaches the handler, which catches none: the script run ends
\* with the exception shown
SearchAbort ==
    /\ stack # <<>> /\ TopF.fn = "search" /\ ret.kind = "exc"
    /\ stack' = <<>>
    /\ ret' = NoRet
    /\ srch' = SrchIdle
    /\ UNCHANGED <<secrets, session, fetch, tok, op, zip, zf, hist>>

----------------------------------------------------------------------------
(* Specification of the INPI side: login test, selection, ZIP build         *)

\* st.secrets values before the .strip() of lines 24-25
RawSecrets == {<<>>, <<" ">>, <<"s">>}

\* a ranked set as a completed search leaves it
Row(k) ==
    [siren |-> Siren(k), denomination |-> DenomOf(k), adresse |-> AddrX,
     ville |-> None, full_addr |-> AddrX, coord |-> <<48 + k, -3>>,
     distance_km |-> haversine_km(48, -3, 48 + k, -3)]
InpiRows == <<Row(1), Row(2)>>

InitCommon ==
    /\ inpi_token = None
    /\ selected_sirens = <<>>
    /\ stack = <<>>
    /\ ret = NoRet
    /\ fetch = FetchIdle
    /\ tok = [force |-> FALSE]
    /\ op = NoOp
    /\ zip = ZipIdle
    /\ zf = <<>>
    /\ srch = SrchIdle

InitInpi(answers, observer) ==
    /\ upstream = answers
    /\ hist = observer
    /\ INPI_USERNAME \in {strip(s) : s \in RawSecrets}
    /\ INPI_PASSWORD \in {strip(s) : s \in RawSecrets}
    /\ results_df = Df(InpiRows)
    /\ click_latlon = <<48, -3>>
    /\ last_cp = PostCode
    /\ InitCommon

NextInpi ==
    \/ Send \/ Wait
    \/ InpiLogin \/ InpiLoginReturn \/ GetInpiToken \/ GetInpiTokenStore
    \/ TestLoginButton \/ TestLoginDone
    \/ InpiHeaders \/ InpiRequest \/ InpiReturn \/ InpiExcept
    \/ ZipCompany \/ ZipListed \/ ZipSkip \/ ZipSleep \/ ZipDownload
    \/ ZipDownloaded \/ ZipEndCompany
    \/ Multiselect \/ ZipButton \/ ZipDone

\* retries, authentication and token cache, under every kind of failure
InitAuth == InitInpi("auth", HistInit)
SpecAuth == InitAuth /\ [][NextInpi]_vars

\* the assembly of the archive, under every listing
InitZip == InitInpi("zip", HistOff)
SpecZip == InitZip /\ [][NextInpi]_vars

----------------------------------------------------------------------------
(* Specification of the search side: map click and search button            *)

InitSearch ==
    /\ upstream = "search"
    /\ hist = HistOff
    /\ INPI_USERNAME = <<"s">>
    /\ INPI_PASSWORD = <<"s">>
    /\ results_df = NoDf
    /\ click_latlon = <<>>
    /\ last_cp = None
    /\ InitCommon

NextSearch ==
    \/ Send \/ Wait
    \/ MapClick \/ SearchButton \/ ReversePostcodeReturn \/ SearchNoPostcode
    \/ SearchPage1 \/ SearchCompaniesReturn \/ SearchPage2 \/ SearchResults
    \/ SearchNoCandidate \/ SearchCandidates
    \/ GeocodeCached \/ GeocodeCall \/ GeocodeAddrReturn \/ SearchGeocoded
    \/ SearchStore \/ SearchAbort

SpecSearch == InitSearch /\ [][NextSearch]_vars

----------------------------------------------------------------------------
(* Specification of a session of searches and selections                    *)

InitSession(answers) ==
    /\ upstream = answers
    /\ hist = HistInit
    /\ INPI_USERNAME = <<"s">>
    /\ INPI_PASSWORD = <<"s">>
    /\ results_df = NoDf
    /\ click_latlon = <<>>
    /\ last_cp = None
    /\ InitCommon

NextSession == NextSearch \/ Multiselect

\* searches over small pages with every geocoding, and selections
InitSearches == InitSession("session")
SpecSession == InitSearches /\ [][NextSession]_vars

\* selections in a ranked set of six
InitSelect == InitSession("select")
SpecSelect == InitSelect /\ [][NextSession]_vars

----------------------------------------------------------------------------
(* Specification of search_companies_by_cp over the page sizes asked for    *)

\* per_page is drawn from -MaxRequested..MaxRequested
MaxRequested == 40

InitClamp ==
    /\ upstream = "search"
    /\ hist = HistOff
    /\ INPI_USERNAME = <<"s">>
    /\ INPI_PASSWORD = <<"s">>
    /\ results_df = NoDf
    /\ click_latlon = <<>>
    /\ last_cp = None
    /\ inpi_token = None
    /\ selected_sirens = <<>>
    /\ ret = NoRet
    /\ fetch = FetchIdle
    /\ tok = [force |-> FALSE]
    /\ zip = ZipIdle
    /\ zf = <<>>
    /\ srch = SrchIdle
    /\ stack = <<Frame("search_companies_by_cp", "start")>>
    /\ \E per_page \in (-MaxRequested)..MaxRequested, page \in {1, 2} :
         op = [NoOp EXCEPT !.fn = "search_companies_by_cp",
                           !.arg = [code_postal |-> PostCode, code_naf |-> naf,
                                    per_page |-> per_page, page |-> page]]

NextClamp == SearchCompaniesCall \/ Send \/ Wait \/ SearchCompaniesReturn

SpecClamp == InitClamp /\ [][NextClamp]_vars

----------------------------------------------------------------------------
(* Properties                                                              *)

InFetcher == stack # <<>> /\ TopF.fn \in Fetchers
\* a fetcher call has ended and its caller has not yet looked at the result
JustReturned == fetch.fn \in Fetchers /\ ~InFetcher

\* C1: for get_json, post_json and download_bytes, an answer with a status
\* >= 400 outside 429/500/502/503/504 ends the call at once: the error is
\* with the caller, no back-off wait and no further request follow it.
C1_NonTransientErrorFailsAtOnce ==
    (/\ fetch.fn \in Fetchers
     /\ fetch.status >= 400
     /\ fetch.status \notin {429, 500, 502, 503, 504})
    => /\ ~InFetcher
       /\ ret.kind = "exc"
       /\ ret.e.status = fetch.status

\* C2: one fetcher call sends at most 4 requests; a successful attempt ends
\* the call with that attempt's result; when the call ends with an error it
\* is the error of the last attempt, and for a connection failure or a
\* status in {429,500,502,503,504} that attempt is the 4th.
C2_AtMostFourAttemptsLastErrorRaised ==
    /\ fetch.attempt_number <= 4
    /\ (InFetcher /\ fetch.attempt_number > 0) => fetch.outcome.kind = "exc"
    /\ InFetcher => ret = NoRet
    /\ JustReturned => ret = fetch.outcome
    /\ (/\ JustReturned
        /\ ret.kind = "exc"
        /\ fetch.status \in {0, 429, 500, 502, 503, 504})
       => fetch.attempt_number = 4

\* all four attempts of a call were made and the last one failed with a 500
C2_Witness ==
    /\ JustReturned
    /\ fetch.attempt_number = 4
    /\ fetch.idle_for = 7
    /\ ret = Raise(Exc("RuntimeError", "Transient download HTTP", 500))

\* C3: inpi_get_attachments and inpi_download_bilan_pdf called with a cached
\* token: a 401 answer is followed by one login and one retry, never by the
\* same request sent again; a 401 answer to the retry goes to the caller with
\* no further login and no further request.
C3_One401OneLoginOneRetry ==
    (op.fn \in InpiCalls /\ op.cached)
    => /\ op.logins <= 1
       /\ (fetch.url \in AuthUrls /\ fetch.status = 401) => ~InFetcher

\* C4: without INPI_USERNAME or INPI_PASSWORD no request goes to the INPI
\* upstream (login, listing, download): build_zip_inpi never starts, no token
\* is ever cached, and what inpi_login raises is the missing-secrets error.
C4_NoInpiRequestWithoutSecrets ==
    (INPI_USERNAME = <<>> \/ INPI_PASSWORD = <<>>)
    => /\ fetch.url \notin {"login", "attachments", "download"}
       /\ \A k \in 1..Len(stack) : stack[k].fn \notin Fetchers \cup {"build_zip_inpi"}
       /\ inpi_token = None
       /\ ret.kind = "exc" => ret.e.msg = "Secrets INPI manquants"

\* without a password, the login test has failed with the missing-secrets error
C4_Witness ==
    /\ INPI_USERNAME # <<>> /\ INPI_PASSWORD = <<>>
    /\ At("test_login", "called")
    /\ ret = Raise(Exc("RuntimeError", "Secrets INPI manquants", 0))

\* the archive: which frame build_zip_inpi is at, below the calls it makes
ZipPc ==
    IF Len(stack) >= 2 /\ stack[2].fn = "build_zip_inpi" THEN stack[2].pc ELSE "none"
InFolder(e, f) ==
    Len(e.name) > Len(f) + 1 /\ SubSeq(e.name, 1, Len(f) + 1) = f \o <<"/">>
FolderEntries(archive, f) == SelectSeq(archive, LAMBDA e : InFolder(e, f))
Pdfs(entries) == SelectSeq(entries, LAMBDA e : e.kind = "pdf")
ZipReturned == At("zip_button", "called") /\ ret # NoRet

ErrorReadme(ent) ==
    Entry("txt", Path(folder_of(ent), <<"README_erreur.txt">>), <<"Erreur attachments INPI">>)
ErrorEntry(ent, b) ==
    Entry("txt", Path(folder_of(ent), <<"ERREUR_">> \o strip(b.id) \o <<".txt">>),
          <<"Erreur download bilan">>)

C5_Completes ==
    /\ ZipReturned =>
         /\ ret.kind = "value" /\ ret.v = zf
         /\ zip.i = Len(zip.selected) + 1
    /\ ZipPc # "none" =>
         \A k \in 1..Min(zip.i - 1, Len(zip.selected)) :
            FolderEntries(zf, folder_of(zip.selected[k])) # <<>>
    /\ \A k \in 1..Len(stack) : (k > 1 /\ stack[k].fn = "build_zip_inpi") => k = 2
C5_FailureIsRecorded ==
    /\ (AtZip("listed") /\ ret.kind = "exc") =>
         /\ zf' = Append(zf, ErrorReadme(ent_i))
         /\ zip' = [zip EXCEPT !.i = zip.i + 1]
         /\ stack' = SetPc("company")
    /\ (AtZip("downloaded") /\ ret.kind = "exc") =>
         /\ zf' = Append(zf, ErrorEntry(ent_i, b_j))
         /\ zip' = [zip EXCEPT !.j = zip.j + 1]
         /\ stack' = SetPc("entry")

\* C5: build_zip_inpi is never ended by a failure of a listing or of a
\* download: it returns the archive after the last selected company, every
\* company passed has entries in its folder; a failed listing adds
\* README_erreur.txt to the company's folder and goes on to the next
\* company, a failed download adds ERREUR_<id>.txt in place of the PDF and
\* goes on to the next entry of the same company.
C5_FailuresNeverAbortTheArchive == []C5_Completes /\ [][C5_FailureIsRecorded]_vars

\* the archive is returned with the first company's listing failed and, for
\* the second, a failed download followed by a PDF
C5_Witness ==
    /\ ZipReturned /\ Len(zip.selected) = 2 /\ Len(zf) = 3
    /\ zf[1] = ErrorReadme(zip.selected[1])
    /\ zf[2].kind = "txt" /\ InFolder(zf[2], folder_of(zip.selected[2]))
    /\ zf[3].kind = "pdf" /\ InFolder(zf[3], folder_of(zip.selected[2]))

C6_Kept(b) == b.deleted # TRUE /\ strip(b.id) # <<>>

\* C6: for a company whose listing succeeded, the download is called for
\* the entries that are not deleted and have an identifier, and for no
\* other: the company's folder holds, in the listing's order, one file per
\* such entry passed, the PDF the upstream keeps under its identifier or the
\* diagnostic of its failed download, and the PDFs are as many as the
\* downloads that succeeded.
C6_OnePdfPerKeptEntryDownloaded ==
    /\ op.fn = "inpi_download_bilan_pdf" =>
         /\ ZipPc = "downloaded"
         /\ C6_Kept(b_j)
         /\ op.arg = strip(b_j.id)
    /\ ZipPc \in {"entry", "slept", "downloaded"} =>
         LET kept == SelectSeq(SubSeq(zip.bilans, 1, zip.j - 1), C6_Kept)
             files == FolderEntries(zf, folder_of(ent_i))
         IN /\ Len(files) = Len(kept)
            /\ Len(Pdfs(files)) = zip.count_ok
            /\ \A k \in 1..Len(kept) :
                 \/ files[k] = Entry("pdf", Path(folder_of(ent_i), filename_of(kept[k])),
                                     PdfOf(strip(kept[k].id)))
                 \/ files[k] = ErrorEntry(ent_i, kept[k])

\* two entries listed, the first deleted, the second downloaded: one PDF
C6_Witness ==
    /\ ZipPc = "entry" /\ zip.j = 3
    /\ zip.bilans[1].deleted /\ C6_Kept(zip.bilans[2])
    /\ Len(FolderEntries(zf, folder_of(ent_i))) = 1
    /\ Len(Pdfs(FolderEntries(zf, folder_of(ent_i)))) = 1

\* extraction of an archive: the members are written in the archive's
\* order, so a file is what the last member of its name holds
ExtractedFile(archive, name) ==
    LET last == CHOOSE k \in 1..Len(archive) :
                   /\ archive[k].name = name
                   /\ \A m \in 1..Len(archive) : archive[m].name = name => m <= k
    IN archive[last].data

\* C7: every PDF written into the archive is read back unchanged from the
\* extracted archive, also when two entries of a listing have the same
\* dates and confidentiality.
C7_RoundTrip ==
    (ZipReturned /\ ret.kind = "value") =>
        \A k \in 1..Len(ret.v) :
            ret.v[k].kind = "pdf" => ExtractedFile(ret.v, ret.v[k].name) = ret.v[k].data

\* C10, as claimed: while no answer was a 401 and no refresh was forced,
\* once authenticated requests have been sent exactly one login has been
\* performed and every request carried the same token.
C10_ExactlyOneLogin ==
    (hist.on /\ hist.sent # {}) => (hist.logins = 1 /\ Cardinality(hist.sent) = 1)

InLogin == \E k \in 1..Len(stack) : stack[k].fn = "inpi_login"

\* C10, amended: while no answer was a 401 and no refresh was forced, a
\* login runs only when no token is cached, at most one login succeeds, and
\* once authenticated requests have been sent exactly one login has
\* succeeded and every request carried its token, which is the cached one.
C10_OneSuccessfulLoginTokenReused ==
    hist.on =>
       /\ InLogin => inpi_token = None
       /\ hist.logins_ok <= 1
       /\ hist.logins_ok <= hist.logins
       /\ inpi_token # None => hist.logins_ok = 1
       /\ hist.sent # {} => (hist.logins_ok = 1 /\ hist.sent = {inpi_token})

\* a second call (a download) goes out with the token a single successful
\* login cached, after an earlier login had failed
C10_Witness ==
    /\ hist.on /\ hist.logins = 2 /\ hist.logins_ok = 1
    /\ op.fn = "inpi_download_bilan_pdf" /\ op.cached
    /\ InFetcher /\ fetch.url = "download" /\ fetch.attempt_number = 1
    /\ hist.sent = {inpi_token}

----------------------------------------------------------------------------
(* The ranked set                                                          *)

Ranked == results_df.rows
Sorted(rows) ==
    \A k \in 1..(Len(rows) - 1) : rows[k].distance_km <= rows[k + 1].distance_km

\* C8: whenever a search has stored a ranked set, the set has at most ten
\* entries, every identifier in it is made of exactly nine digits, no two
\* entries share an identifier, and the entries are in non-decreasing order of
\* distance.
C8_RankedSetCappedCleanSorted ==
    ~results_df.none =>
       /\ Len(Ranked) <= 10
       /\ \A k \in 1..Len(Ranked) :
            /\ Len(Ranked[k].siren) = 9
            /\ \A i \in 1..9 : Ranked[k].siren[i] \in Digits
       /\ \A j, k \in 1..Len(Ranked) : Ranked[j].siren = Ranked[k].siren => j = k
       /\ Sorted(Ranked)

\* a search over eleven valid candidates (twelve raw results on page 1, of
\* which two malformed, and page 2) stored ten of them, at several distances
C8_Witness ==
    /\ Idle /\ ~results_df.none
    /\ Len(Ranked) = 10
    /\ \E k \in 1..10 : Ranked[k].siren = Siren(11)
    /\ \E k \in 1..9 : Ranked[k].distance_km < Ranked[k + 1].distance_km

C9_UnresolvedLast ==
    ~results_df.none =>
       /\ \A k \in 1..Len(Ranked) :
            IF Ranked[k].coord = <<>> THEN Ranked[k].distance_km = Sentinel
            ELSE Ranked[k].distance_km < Sentinel
       /\ Sorted(Ranked)

C9_FailedCallGetsSentinel ==
    (At("search", "geocode") /\ ret.kind = "exc") =>
       /\ stack' # <<>>
       /\ srch'.dists = Append(srch.dists, Sentinel)

\* C9: a candidate whose address is not found, or whose geocoding call fails
\* after its retries, gets the distance 10^9 and comes after every resolved
\* candidate, and the ranking goes on: a failed call leaves the handler
\* running with the sentinel appended for that candidate.
C9_GeocodingFailureNeverAbortsRanking ==
    []C9_UnresolvedLast /\ [][C9_FailedCallGetsSentinel]_vars

----------------------------------------------------------------------------
(* The archive: placeholders and the throttling delay                      *)

EmptyReadme(ent) ==
    Entry("txt", Path(folder_of(ent), <<"README.txt">>), <<"Aucun bilan">>)
NoPdfReadme(ent) ==
    Entry("txt", Path(folder_of(ent), <<"README.txt">>), <<"aucun PDF">>)
NoneKept(bilans) == \A k \in 1..Len(bilans) : ~C6_Kept(bilans[k])

C14_EveryFolderHasAnEntry ==
    /\ ZipPc # "none" =>
         \A k \in 1..Min(zip.i - 1, Len(zip.selected)) :
            FolderEntries(zf, folder_of(zip.selected[k])) # <<>>
    /\ (ZipReturned /\ ret.kind = "value") =>
         \A k \in 1..Len(zip.selected) :
            FolderEntries(ret.v, folder_of(zip.selected[k])) # <<>>
C14_PlaceholderWritten ==
    /\ (AtZip("listed") /\ ret.kind = "value" /\ ret.v = <<>>) =>
         FolderEntries(zf', folder_of(ent_i)) = <<EmptyReadme(ent_i)>>
    /\ (AtZip("entry") /\ zip.j > Len(zip.bilans) /\ NoneKept(zip.bilans)) =>
         FolderEntries(zf', folder_of(ent_i)) = <<NoPdfReadme(ent_i)>>

\* C14: when a company's listing succeeds and no entry is left after the
\* deleted and identifier-less ones are passed over (the listing is empty or
\* all its entries are passed over), the company's folder holds README.txt
\* and nothing else, so no PDF; and every company the loop has passed, and
\* every selected company in the returned archive, has at least one entry
\* in its folder.
C14_NothingRetainedGetsPlaceholder ==
    []C14_EveryFolderHasAnEntry /\ [][C14_PlaceholderWritten]_vars

\* a company whose listing held entries, all passed over, got README.txt
C14_Witness ==
    /\ AtZip("company") /\ zip.i >= 2
    /\ zip.bilans # <<>> /\ NoneKept(zip.bilans)
    /\ zf # <<>> /\ zf[Len(zf)] = NoPdfReadme(zip.selected[zip.i - 1])

C15_DelayThenDownload ==
    /\ (ZipPc' = "slept" /\ ZipPc # "slept") =>
         /\ AtZip("entry") /\ zip.j <= Len(zip.bilans) /\ C6_Kept(b_j)
         /\ zip' = zip /\ zf' = zf /\ op.fn = "none"
    /\ ZipPc = "slept" =>
         /\ AtZip("slept")
         /\ ZipPc' = "downloaded"
         /\ op'.fn = "inpi_download_bilan_pdf" /\ op'.arg = strip(b_j.id)
         /\ zip' = zip
    /\ (op'.fn = "inpi_download_bilan_pdf" /\ op.fn # "inpi_download_bilan_pdf") =>
         ZipPc = "slept"
    /\ (AtZip("entry") /\ zip.j <= Len(zip.bilans) /\ ~C6_Kept(b_j)) =>
         /\ ZipPc' = "entry" /\ zip'.j = zip.j + 1
         /\ op' = op /\ fetch' = fetch

\* C15: a download is called only right after the delay taken for the same
\* entry, the delay is taken only for an entry that is not deleted and has
\* an identifier, once the entry before it is done with, and is followed by
\* that entry's download and nothing else; an entry that is passed over gets
\* no delay and no download.
C15_OneDelayBeforeEachDownload == [][C15_DelayThenDownload]_vars

\* the delay for the second entry of a listing, the first being downloaded
C15_Witness ==
    /\ AtZip("slept") /\ zip.j = 2
    /\ C6_Kept(zip.bilans[1]) /\ zip.count_ok = 1
    /\ Len(Pdfs(FolderEntries(zf, folder_of(ent_i)))) = 1

----------------------------------------------------------------------------
(* Authentication failures and rejected tokens                             *)

C16_RetryOnlyAfterRequest401 ==
    (op.fn \in InpiCalls /\ op.phase = 1 /\ op'.phase = 2) =>
       /\ AtCall("fetched")
       /\ fetch.url \in AuthUrls /\ fetch.status = 401

C16_FailedLoginPropagates ==
    (AtCall("headers") /\ ret.kind = "exc") =>
       /\ stack' = Pop /\ ret' = ret
       /\ op' = op

\* C16: the handler of inpi_get_attachments and inpi_download_bilan_pdf
\* logs in again and re-issues the call only when the listing or download
\* request itself was answered 401; when the login made to build the
\* headers fails, also with a 401, the failure goes to the caller: no second
\* login, and the request is not sent.
C16_LoginFailureIsNotRetried ==
    [][C16_RetryOnlyAfterRequest401 /\ C16_FailedLoginPropagates]_vars

C17_NotSentAgain ==
    (fetch.url \in AuthUrls /\ fetch.status = 401) =>
       ~(fetch'.url = fetch.url /\ fetch'.attempt_number = fetch.attempt_number + 1)

C17_CacheInvalidated ==
    (op.fn \in InpiCalls /\ op.phase = 2 /\ InLogin) => inpi_token = None

\* C17: once a listing or download request was answered 401, the token it
\* carried is not sent again: no further attempt of that request is made,
\* and during the login that follows the cache holds no token, so that a
\* failed login leaves none.
C17_RejectedTokenNeverResent ==
    []C17_CacheInvalidated /\ [][C17_NotSentAgain]_vars

----------------------------------------------------------------------------
(* The page size sent to the search upstream                               *)

\* C13: for every per_page asked of search_companies_by_cp, the per_page of
\* the request sent is min(max(per_page, 1), 25), between 1 and 25; the
\* request is always made, and the call fails only with the upstream's
\* error.
C13_PerPageClamped ==
    op.fn = "search_companies_by_cp" =>
       /\ fetch.url = "search" =>
            /\ fetch.arg.per_page \in 1..25
            /\ fetch.arg.per_page = Min(Max(op.arg.per_page, 1), 25)
            /\ fetch.arg.page = op.arg.page
       /\ ~At("search_companies_by_cp", "start") => (fetch.url = "search" \/ ret # NoRet)
       /\ ret.kind = "exc" => ret.e.msg \in HttpMessages

\* a page of 40 was asked for, 25 was sent and the answer returned
C13_Witness ==
    /\ op.fn = "search_companies_by_cp" /\ op.arg.per_page = 40
    /\ fetch.url = "search" /\ fetch.arg.per_page = 25
    /\ fetch.attempt_number = 1 /\ ret.kind = "value"

----------------------------------------------------------------------------
(* The selection across searches and selection changes                     *)

\* C11: after any sequence of searches and selection changes, at most five
\* identifiers are selected, and the rows the ZIP button would pass to
\* build_zip_inpi are at most five.
C11_AtMostFiveSelected ==
    /\ Len(selected_sirens) <= 5
    /\ NoDup(selected_sirens)
    /\ PanelShown => Len(selected_rows) <= 5

\* five of the six companies of the ranked set are selected, and they are
\* the rows the ZIP button would pass
C11_Witness ==
    /\ Idle /\ PanelShown
    /\ Len(options) = 6
    /\ Len(selected_sirens) = 5
    /\ Len(selected_rows) = 5

----------------------------------------------------------------------------
(* Repeating a search                                                      *)

\* a search is about to store its ranked set
Completing ==
    \/ At("search", "rows") /\ drop_duplicates(rows_of(srch.results, srch.cp)) = <<>>
    \/ At("search", "geocode") /\ ret = NoRet /\ Len(srch.dists) = Len(srch.df)

C12_SameAsBefore ==
    (Completing /\ stack' = <<>> /\ ~hist.search.none /\ hist.search.key = SearchKey)
       => results_df' = Df(hist.search.df)

C12_ReplacedWholesale ==
    (Idle /\ ~hist.search.none) => results_df = Df(hist.search.df)

\* C12: a search run with the same click point, sector code, page options
\* and upstream answers (postcode, search pages, geocodings) as the search
\* completed before it stores the same ranked set, the same entries in the
\* same order, whatever was stored or selected in between; and the ranked
\* set in the session is always the one the last completed search computed.
C12_SameInputsSameRankedSet ==
    []C12_ReplacedWholesale /\ [][C12_SameAsBefore]_vars

\* a search with the same inputs and answers as the one before it has just
\* stored a ranked set of three, companies being selected
C12_Witness ==
    /\ Idle /\ hist.search.repeat
    /\ Len(results_df.rows) = 3
    /\ selected_sirens # <<>>

----------------------------------------------------------------------------
(* The selection and the ranked set                                        *)

\* C18: whenever a search result is stored (results_df is not None), every
\* selected identifier is the identifier of an entry of the ranked set,
\* also after a search that stored an empty ranked set or one without a
\* company selected before.
C18_SelectionWithinRankedSet ==
    ~results_df.none => \A i \in 1..Len(selected_sirens) :
                           \E k \in 1..Len(results_df.rows) :
                              results_df.rows[k].siren = selected_sirens[i]

====
